---- MODULE Spec2Model ----
(***************************************************************************)
(* Model of src/src/methods/filterCourses.ts: the module filter of the     *)
(* course list.  Strings are sequences of one-character strings, so that   *)
(* split, the regular expressions and toLowerCase are computed and not     *)
(* assumed.  The two kanji season glyphs are written by their code points: *)
(* "U+6625" is the spring glyph, "U+79CB" the autumn glyph.                *)
(***************************************************************************)
EXTENDS Integers, Sequences, FiniteSets, TLC

VARIABLES
  lang,            \* the module-level `lang` (line 8), set by checkLang()
  listContainer,   \* ".courselist tbody": [present, children]
  thumbContainer,  \* ".mycourses-body .section": [present, children]
  page0,           \* the two containers as the server rendered them (history)
  lastPass,        \* the last applyFilter call: [code, error, processed] (history)
  hist,            \* about the last pass: [hiddenBefore], it was a pass with
                   \* `all` over a document with a hidden entry (history)
  pc,              \* position of filterCourses(): "load", "ready", "crashed", "unit"
  selectorValue,   \* moduleSelector.value
  stored,          \* the persisted filterConfigForModule, or Absent
  readPending,     \* the getStorage callback has not fired yet
  writes,          \* setStorage requests in flight, oldest first
  probe            \* one call of the parser or of the codec on its own:
                   \* [fn, prefix, run, trailing, input, done, output]

vars == <<lang, listContainer, thumbContainer, page0, lastPass, hist,
          pc, selectorValue, stored, readPending, writes, probe>>

domVars == <<listContainer, thumbContainer>>
appVars == <<pc, selectorValue, stored, readPending, writes>>

----------------------------------------------------------------------------
(* Bounds *)

\* Most course entries in the document (over both containers).
MaxEntries == 3
\* Most course entries in the document in the event-level specification.
AppMaxEntries == 2
\* Most setStorage requests in flight at once.
MaxWrites == 1
\* Longest run of segment letters in a label given to the parser on its own.
MaxRun == 3

----------------------------------------------------------------------------
(* Strings *)

Undefined == <<"<undefined>">>
Absent == <<"<absent>">>
NoCode == <<"<none>">>

All == <<"a","l","l">>
SpringA == <<"s","p","r","i","n","g","-","a">>
SpringB == <<"s","p","r","i","n","g","-","b">>
SpringC == <<"s","p","r","i","n","g","-","c">>
AutumnA == <<"a","u","t","u","m","n","-","a">>
AutumnB == <<"a","u","t","u","m","n","-","b">>
AutumnC == <<"a","u","t","u","m","n","-","c">>

\* The option values of the selector control, in option order.
moduleCodes == <<All, SpringA, SpringB, SpringC, AutumnA, AutumnB, AutumnC>>

ModuleCodeSet == {moduleCodes[i] : i \in DOMAIN moduleCodes}
ConcreteCodes == ModuleCodeSet \ {All}

\* \s of a JavaScript regular expression (the members the labels use).
WhiteSpace == {" ", "\t", "\n"}
\* What `.` does not match.
LineTerminator == {"\n"}

\* String.prototype.toLowerCase on one character.
ToLowerCase(c) ==
  CASE c = "A" -> "a" [] c = "B" -> "b" [] c = "C" -> "c"
    [] c = "S" -> "s" [] c = "P" -> "p" [] c = "R" -> "r"
    [] c = "I" -> "i" [] c = "N" -> "n" [] c = "G" -> "g"
    [] c = "U" -> "u" [] c = "T" -> "t" [] c = "M" -> "m"
    [] OTHER -> c

LowerStr(s) == [i \in DOMAIN s |-> ToLowerCase(s[i])]

RECURSIVE SplitAcc(_, _, _, _)
SplitAcc(s, sep, cur, i) ==
  IF i > Len(s) THEN <<cur>>
  ELSE IF s[i] = sep THEN <<cur>> \o SplitAcc(s, sep, <<>>, i + 1)
  ELSE SplitAcc(s, sep, Append(cur, s[i]), i + 1)

\* String.prototype.split(sep) for a one-character separator.
Split(s, sep) == SplitAcc(s, sep, <<>>, 1)

\* parts[i], undefined past the end of the array.
Index(parts, i) == IF i \in DOMAIN parts THEN parts[i] ELSE Undefined

----------------------------------------------------------------------------
(* ModuleCode codec *)

\* parseModuleCode with the indices of the two parts one too high.
parseModuleCodeOffByOne(moduleCode) ==
  [season |-> Index(Split(moduleCode, "-"), 2),
   module |-> Index(Split(moduleCode, "-"), 3)]

parseModuleCode(moduleCode) ==
  [season |-> Index(Split(moduleCode, "-"), 1),
   module |-> Index(Split(moduleCode, "-"), 2)]

----------------------------------------------------------------------------
(* Course-info parser *)

SegmentLetters == {"a", "b", "c"}

\* Length of the longest run of [abc] (case-insensitive) starting at index i.
RECURSIVE RunLen(_, _)
RunLen(s, i) ==
  IF i <= Len(s) /\ ToLowerCase(s[i]) \in SegmentLetters
  THEN 1 + RunLen(s, i + 1)
  ELSE 0

\* ModuleArray without the toLowerCase.
ModuleArrayKeepingCase(s, from, n) == [k \in 1..n |-> <<s[from + k - 1]>>]

\* module.split("").map((str) => str.toLowerCase())
ModuleArray(s, from, n) == [k \in 1..n |-> <<ToLowerCase(s[from + k - 1])>>]

NoMatch == [matched |-> FALSE, spring |-> FALSE, autumn |-> FALSE, module |-> <<>>]

\* /^([U+6625 U+79CB])([abc]+)/i and the object built from its groups.
ParseJa(s) ==
  IF Len(s) >= 2 /\ s[1] \in {"U+6625", "U+79CB"} /\ RunLen(s, 2) >= 1
  THEN [matched |-> TRUE,
        spring |-> s[1] = "U+6625",
        autumn |-> s[1] = "U+79CB",
        module |-> ModuleArray(s, 2, RunLen(s, 2))]
  ELSE NoMatch

Spring == <<"S","p","r","i","n","g">>
Autumn == <<"A","u","t","u","m","n">>

\* /^(Spring|Autumn)\s([abc]+)/i and the object built from its groups: the
\* season group is compared with === against the capitalised words.
ParseEn(s) ==
  IF /\ Len(s) >= 8
     /\ LowerStr(SubSeq(s, 1, 6)) \in {LowerStr(Spring), LowerStr(Autumn)}
     /\ s[7] \in WhiteSpace
     /\ RunLen(s, 8) >= 1
  THEN [matched |-> TRUE,
        spring |-> SubSeq(s, 1, 6) = Spring,
        autumn |-> SubSeq(s, 1, 6) = Autumn,
        module |-> ModuleArray(s, 8, RunLen(s, 8))]
  ELSE NoMatch

SupportedLangs == {"ja", "en"}

\* parseCourseInfoString for the supported languages (void is NoMatch); the
\* caller raises "invalid lang" for any other language.
parseCourseInfoString(courseInfoString) ==
  IF lang = "ja" THEN ParseJa(courseInfoString)
  ELSE IF lang = "en" THEN ParseEn(courseInfoString)
  ELSE NoMatch

\* courseInfo.season[key]: undefined (falsy) for a key that is no season.
SeasonOf(courseInfo, key) ==
  IF key = <<"s","p","r","i","n","g">> THEN courseInfo.spring
  ELSE IF key = <<"a","u","t","u","m","n">> THEN courseInfo.autumn
  ELSE FALSE

\* Array.prototype.includes
Includes(arr, x) == \E i \in DOMAIN arr : arr[i] = x

\* /^.+\s.+$/ : some whitespace character with at least one character on each
\* side, and no line terminator on either side of it.
ShapeCheck(s) ==
  \E i \in 2..(Len(s) - 1) :
    /\ s[i] \in WhiteSpace
    /\ \A j \in 1..(i - 1) : s[j] \notin LineTerminator
    /\ \A j \in (i + 1)..Len(s) : s[j] \notin LineTerminator

----------------------------------------------------------------------------
(* The document *)

\* An element: style.display, the row classes of its classList, the text of
\* its label (third cell's innerText in a row, the detail element's title in
\* a card) and whether a card has the ".courseitemdetail-date span" element.
Node(display, classList, text, detail) ==
  [display |-> display, classList |-> classList, text |-> text, detail |-> detail]

Visible(course) == course.display # "none"

\* replace() leaving the old token in the list.
ReplaceAdding(classList, oldToken, newToken) ==
  IF oldToken \in classList THEN classList \cup {newToken} ELSE classList

\* DOMTokenList.replace(oldToken, newToken)
Replace(classList, oldToken, newToken) ==
  IF oldToken \in classList
  THEN (classList \ {oldToken}) \cup {newToken}
  ELSE classList

\* ViewModeOf with the final else taken for thumbnail layout.
ViewModeOfDefaultingToThumbnail(lc, tc) ==
  IF lc.present THEN "list" ELSE "thumbnail"

\* The detection with the thumbnail container looked up first.
ViewModeOfThumbnailFirst(lc, tc) ==
  IF tc.present THEN "thumbnail" ELSE IF lc.present THEN "list" ELSE "invalid"

\* Lines 146-158: the layout the containers present select.
ViewModeOf(lc, tc) ==
  IF lc.present THEN "list"
  ELSE IF tc.present THEN "thumbnail"
  ELSE "invalid"

\* Array.from(children) followed by shift() (list) or pop() (thumbnail).
CoursesOf(lc, tc) ==
  IF lc.present
  THEN (IF lc.children = <<>> THEN <<>> ELSE Tail(lc.children))
  ELSE IF tc.present
  THEN (IF tc.children = <<>> THEN <<>>
        ELSE SubSeq(tc.children, 1, Len(tc.children) - 1))
  ELSE <<>>

\* Lines 246-258: the label of a course in the layout.  In list layout the
\* row has been given display "table-row" (line 243) before innerText is read,
\* so the text read is the rendered text of the cell whatever the row's
\* display was before.
CourseInfoStringOf(course, viewMode) ==
  IF viewMode = "list" THEN course.text
  ELSE IF course.detail THEN course.text
  ELSE <<>>

----------------------------------------------------------------------------
(* Visibility engine *)

\* handleOddRow swapping whichever class the row carries.
handleOddRowToggling(course, isOddRow) ==
  [course |-> [course EXCEPT !.classList =
                 IF "row0" \in @ THEN Replace(@, "row0", "row1")
                 ELSE Replace(@, "row1", "row0")],
   isOddRow |-> ~isOddRow]

handleOddRow(course, isOddRow) ==
  [course |-> [course EXCEPT !.classList =
                 IF isOddRow THEN Replace(@, "row0", "row1")
                 ELSE Replace(@, "row1", "row0")],
   isOddRow |-> ~isOddRow]

\* showCourse striping a row without displaying it.
showCourseKeepingDisplay(course, viewMode, isOddRow) ==
  IF viewMode = "list"
  THEN handleOddRow(course, isOddRow)
  ELSE IF viewMode = "thumbnail"
  THEN [course |-> [course EXCEPT !.display = "block"], isOddRow |-> isOddRow]
  ELSE [course |-> course, isOddRow |-> isOddRow]

\* showCourse leaving alone an element an earlier pass hid.
showCourseUnlessHidden(course, viewMode, isOddRow) ==
  IF course.display = "none"
  THEN [course |-> course, isOddRow |-> isOddRow]
  ELSE IF viewMode = "list"
  THEN handleOddRow([course EXCEPT !.display = "table-row"], isOddRow)
  ELSE IF viewMode = "thumbnail"
  THEN [course |-> [course EXCEPT !.display = "block"], isOddRow |-> isOddRow]
  ELSE [course |-> course, isOddRow |-> isOddRow]

showCourse(course, viewMode, isOddRow) ==
  IF viewMode = "list"
  THEN handleOddRow([course EXCEPT !.display = "table-row"], isOddRow)
  ELSE IF viewMode = "thumbnail"
  THEN [course |-> [course EXCEPT !.display = "block"], isOddRow |-> isOddRow]
  ELSE [course |-> course, isOddRow |-> isOddRow]

hideCourse(course) == [course EXCEPT !.display = "none"]

\* The guard of the parse branch without the shape check.
PassesShapeCheckAlways(courseInfoString) == TRUE

\* Line 263: the guard of the parse branch.
PassesShapeCheck(courseInfoString) == ShapeCheck(courseInfoString)

\* Selected without the test of the season.
SelectedIgnoringSeason(courseInfo, parsedModuleCode) ==
  /\ courseInfo.matched
  /\ Includes(courseInfo.module, parsedModuleCode.module)

\* Lines 266-270: the condition under which a parsed course is shown.
Selected(courseInfo, parsedModuleCode) ==
  /\ courseInfo.matched
  /\ SeasonOf(courseInfo, parsedModuleCode.season)
  /\ Includes(courseInfo.module, parsedModuleCode.module)

\* FilterParsed with the striping flag advanced by a hidden course too.
FilterParsedFlipOnHide(c1, courseInfoString, viewMode, parsedModuleCode, isOddRow) ==
  IF lang \notin SupportedLangs
  THEN [course |-> c1, isOddRow |-> isOddRow, error |-> "invalid lang"]
  ELSE IF Selected(parseCourseInfoString(courseInfoString), parsedModuleCode)
  THEN [error |-> "none"] @@ showCourse(c1, viewMode, isOddRow)
  ELSE [course |-> hideCourse(c1), isOddRow |-> ~isOddRow, error |-> "none"]

\* Lines 263-277 for a label that passes the shape check.
FilterParsed(c1, courseInfoString, viewMode, parsedModuleCode, isOddRow) ==
  IF lang \notin SupportedLangs
  THEN [course |-> c1, isOddRow |-> isOddRow, error |-> "invalid lang"]
  ELSE IF Selected(parseCourseInfoString(courseInfoString), parsedModuleCode)
  THEN [error |-> "none"] @@ showCourse(c1, viewMode, isOddRow)
  ELSE [course |-> hideCourse(c1), isOddRow |-> isOddRow, error |-> "none"]

\* Lines 239-278: the body of the forEach for a concrete selector.
FilterCourse(course, viewMode, parsedModuleCode, isOddRow) ==
  IF PassesShapeCheck(CourseInfoStringOf(course, viewMode))
  THEN FilterParsed(IF viewMode = "list"
                    THEN [course EXCEPT !.display = "table-row"]
                    ELSE course,
                    CourseInfoStringOf(course, viewMode),
                    viewMode, parsedModuleCode, isOddRow)
  ELSE [error |-> "none"] @@
       showCourse(IF viewMode = "list"
                  THEN [course EXCEPT !.display = "table-row"]
                  ELSE course,
                  viewMode, isOddRow)

\* Lines 280-282: the body of the forEach for `all`.
ShowCourseOfAll(course, viewMode, parsedModuleCode, isOddRow) ==
  [error |-> "none"] @@ showCourse(course, viewMode, isOddRow)

RECURSIVE ForEach(_, _, _, _, _, _)

\* The loop after the callback returned or threw r on courses[i].
AfterCallback(courses, i, viewMode, moduleCode, parsedModuleCode, r) ==
  IF r.error # "none"
  THEN [courses |-> [courses EXCEPT ![i] = r.course],
        error |-> r.error, processed |-> i - 1]
  ELSE ForEach([courses EXCEPT ![i] = r.course], i + 1, viewMode,
               moduleCode, parsedModuleCode, r.isOddRow)

\* courses.forEach from index i on; stops at the first throw.
ForEach(courses, i, viewMode, moduleCode, parsedModuleCode, isOddRow) ==
  IF i > Len(courses)
  THEN [courses |-> courses, error |-> "none", processed |-> Len(courses)]
  ELSE AfterCallback(courses, i, viewMode, moduleCode, parsedModuleCode,
         IF moduleCode # All
         THEN FilterCourse(courses[i], viewMode, parsedModuleCode, isOddRow)
         ELSE ShowCourseOfAll(courses[i], viewMode, parsedModuleCode, isOddRow))

\* What shift() and pop() took out of the array of children: the elements
\* stay in the document, outside the loop's reach.
Shifted(children) == IF children = <<>> THEN <<>> ELSE <<Head(children)>>
Popped(children) == IF children = <<>> THEN <<>> ELSE <<children[Len(children)]>>

\* The containers after the loop returned r.
WithCourses(lc, tc, viewMode, r) ==
  IF viewMode = "list"
  THEN [listContainer |-> [lc EXCEPT !.children = Shifted(@) \o r.courses],
        thumbContainer |-> tc,
        error |-> r.error, processed |-> r.processed]
  ELSE [listContainer |-> lc,
        thumbContainer |-> [tc EXCEPT !.children = r.courses \o Popped(@)],
        error |-> r.error, processed |-> r.processed]

\* applyFilter(moduleCode) on the containers lc, tc: the containers after the
\* call, what it threw ("none" when it returned) and how many courses the
\* loop finished.  parseModuleCode is called once, and only for a selector
\* other than `all` (lines 236-237).
applyFilter(lc, tc, moduleCode) ==
  IF ViewModeOf(lc, tc) = "invalid"
  THEN [listContainer |-> lc, thumbContainer |-> tc,
        error |-> "invalid viewMode", processed |-> 0]
  ELSE WithCourses(lc, tc, ViewModeOf(lc, tc),
         ForEach(CoursesOf(lc, tc), 1, ViewModeOf(lc, tc), moduleCode,
                 IF moduleCode # All THEN parseModuleCode(moduleCode)
                 ELSE [season |-> Undefined, module |-> Undefined],
                 TRUE))

----------------------------------------------------------------------------
(* The pages and the display languages considered *)

\* "<spring glyph>A <monday glyph>1": a Japanese label, spring, segment a.
LabelJaSpringA == <<"U+6625", "A", " ", "U+6708", "1">>
\* "<autumn glyph>Bc 5": a Japanese label, autumn, segments b and c.
LabelJaAutumnBC == <<"U+79CB", "B", "c", " ", "5">>
\* "Spring AB Mon. 2": an English label, spring, segments a and b.
LabelEnSpringAB ==
  <<"S","p","r","i","n","g"," ","A","B"," ","M","o","n","."," ","2">>
\* "<spring glyph>A": one token only.
LabelOneToken == <<"U+6625", "A">>

\* The third cell's text of a row.
Labels == {LabelJaSpringA, LabelJaAutumnBC, LabelEnSpringAB, LabelOneToken}

\* A card's detail element: present with one of the two-token labels as its
\* title, or missing.
CardLabels ==
  {[text |-> l, detail |-> TRUE] : l \in Labels \ {LabelOneToken}}
    \cup {[text |-> <<>>, detail |-> FALSE]}

\* The values checkLang() is taken to return: the two supported codes and
\* one other.
Langs == {"ja", "en", "other"}

\* How the server striped the rows: alternating from row0, or without row
\* classes.
Stripes == {"row0", "none"}

RowClass(stripe, i) ==
  IF stripe = "none" THEN {}
  ELSE IF (i % 2 = 1) = (stripe = "row0") THEN {"row0"}
  ELSE {"row1"}

HeaderRow == Node("", {}, <<"H">>, TRUE)
FooterNode == Node("", {}, <<>>, FALSE)

ListOf(texts, stripe) ==
  [present |-> TRUE,
   children |-> <<HeaderRow>> \o
                [i \in DOMAIN texts |-> Node("", RowClass(stripe, i), texts[i], TRUE)]]

\* The cards carry a class token of their own, which no pass is to change.
ThumbOf(cards) ==
  [present |-> TRUE,
   children |-> [i \in DOMAIN cards |->
                   Node("", {"row0"}, cards[i].text, cards[i].detail)]
                \o <<FooterNode>>]

NoContainer == [present |-> FALSE, children |-> <<>>]

\* The documents with at most max course entries: either container may be
\* missing; every entry is displayed as rendered by the server.
PageInit(max) ==
  \E hasList, hasThumb \in BOOLEAN, nl \in 0..max :
    \E nt \in 0..(max - nl) :
      /\ hasList \/ nl = 0
      /\ hasThumb \/ nt = 0
      /\ \E texts \in [1..nl -> Labels], stripe \in Stripes,
            cards \in [1..nt -> CardLabels] :
           /\ nl = 0 => stripe = "none"
           /\ listContainer = IF hasList THEN ListOf(texts, stripe) ELSE NoContainer
           /\ thumbContainer = IF hasThumb THEN ThumbOf(cards) ELSE NoContainer
  

NoPass == [code |-> NoCode, error |-> "none", processed |-> 0]
NoProbe == [fn |-> "none", prefix |-> <<>>, run |-> <<>>, trailing |-> <<>>,
            input |-> <<>>, done |-> FALSE, output |-> <<>>]
NoHist == [hiddenBefore |-> FALSE]

AllNodes == listContainer.children \o thumbContainer.children
SomeHidden == \E i \in DOMAIN AllNodes : ~Visible(AllNodes[i])

----------------------------------------------------------------------------
(* One call of applyFilter, as a step *)

\* The effect of applyFilter(moduleCode) on the document, and its record.
ApplyPass(moduleCode) ==
  \E r \in {applyFilter(listContainer, thumbContainer, moduleCode)} :
     /\ listContainer' = r.listContainer
     /\ thumbContainer' = r.thumbContainer
     /\ lastPass' = [code |-> moduleCode, error |-> r.error,
                     processed |-> r.processed]

PassError(moduleCode) ==
  applyFilter(listContainer, thumbContainer, moduleCode).error

----------------------------------------------------------------------------
(* Specification of the pass alone: applyFilter called with any selector,  *)
(* any number of times, on any document, under any value of lang.          *)

Init ==
  /\ lang \in Langs
  /\ PageInit(MaxEntries)
  /\ page0 = [list |-> listContainer, thumb |-> thumbContainer]
  /\ lastPass = NoPass
  /\ hist = NoHist
  /\ pc = "unit"
  /\ selectorValue = All
  /\ stored = Absent
  /\ readPending = FALSE
  /\ writes = <<>>
  /\ probe = NoProbe

Pass(moduleCode) ==
  /\ pc = "unit"
  /\ ApplyPass(moduleCode)
  /\ hist' = [hiddenBefore |-> moduleCode = All /\ SomeHidden]
  /\ UNCHANGED <<lang, probe, page0, appVars>>

Next == \E moduleCode \in ModuleCodeSet : Pass(moduleCode)

Spec == Init /\ [][Next]_vars

----------------------------------------------------------------------------
(* Specification of the events: filterCourses() on page load, the          *)
(* getStorage callback, the selector's change events and the completion or *)
(* failure of the setStorage requests.                                     *)

\* The selections a user makes, and the values an earlier session stored.
UserChoices == {All, SpringA, AutumnB}

\* Lines 100-114: moduleCodeToText(moduleCode) throws a TypeError when it
\* reaches parsedModuleCode.module.toUpperCase() with module undefined.
ModuleCodeToTextThrows(moduleCode) ==
  /\ ~(moduleCode = All /\ lang \in SupportedLangs)
  /\ parseModuleCode(moduleCode).module = Undefined

\* Lines 116-125: the options are built in order; any throw ends the call.
CreateModuleSelectorThrows ==
  \E i \in DOMAIN moduleCodes : ModuleCodeToTextThrows(moduleCodes[i])

AppInit ==
  /\ lang \in Langs
  /\ PageInit(AppMaxEntries)
  /\ page0 = [list |-> listContainer, thumb |-> thumbContainer]
  /\ lastPass = NoPass
  /\ hist = NoHist
  /\ pc = "load"
  /\ selectorValue = NoCode
  /\ stored \in {Absent} \cup UserChoices
  /\ readPending = FALSE
  /\ writes = <<>>
  /\ probe = NoProbe

\* Lines 10-39: filterCourses(). The option `all` is the selected one; the
\* read of the preference is issued and the listener registered.
FilterCourses ==
  /\ pc = "load"
  /\ IF CreateModuleSelectorThrows
     THEN /\ pc' = "crashed"
          /\ UNCHANGED <<selectorValue, readPending>>
     ELSE /\ pc' = "ready"
          /\ selectorValue' = All
          /\ readPending' = TRUE
  /\ UNCHANGED <<lang, probe, domVars, page0, lastPass, hist, stored, writes>>

\* The getStorage callback taking an absent preference for `all`.
RestoreCallbackDefaultingToAll ==
  /\ pc = "ready"
  /\ readPending
  /\ readPending' = FALSE
  /\ IF stored # Absent
     THEN /\ selectorValue' = stored
          /\ ApplyPass(stored)
     ELSE /\ selectorValue' = All
          /\ ApplyPass(All)
  /\ UNCHANGED <<lang, probe, page0, hist, pc, stored, writes>>

\* Lines 18-23: the getStorage callback.
RestoreCallback ==
  /\ pc = "ready"
  /\ readPending
  /\ readPending' = FALSE
  /\ IF stored # Absent
     THEN /\ selectorValue' = stored
          /\ ApplyPass(stored)
     ELSE UNCHANGED <<selectorValue, domVars, lastPass>>
  /\ UNCHANGED <<lang, probe, page0, hist, pc, stored, writes>>

\* The change listener with setStorage called before applyFilter.
ChangeListenerWritingFirst(curModuleCode) ==
  /\ writes' = Append(writes, curModuleCode)
  /\ ApplyPass(curModuleCode)

\* The change listener with setStorage reached whatever applyFilter did.
ChangeListenerWritingAlways(curModuleCode) ==
  /\ ApplyPass(curModuleCode)
  /\ writes' = Append(writes, curModuleCode)

\* Lines 26-38: the change listener; setStorage is reached only when
\* applyFilter returned.
ChangeListener(curModuleCode) ==
  /\ ApplyPass(curModuleCode)
  /\ writes' = IF PassError(curModuleCode) = "none"
               THEN Append(writes, curModuleCode)
               ELSE writes

\* The user selects another option; the change event is dispatched.
Change(curModuleCode) ==
  /\ pc = "ready"
  /\ curModuleCode # selectorValue
  /\ Len(writes) < MaxWrites
  /\ selectorValue' = curModuleCode
  /\ ChangeListener(curModuleCode)
  /\ UNCHANGED <<lang, probe, page0, hist, pc, stored, readPending>>

\* The preference store completes the oldest request.
WriteCompletes ==
  /\ writes # <<>>
  /\ stored' = Head(writes)
  /\ writes' = Tail(writes)
  /\ UNCHANGED <<lang, probe, domVars, page0, lastPass, hist, pc, selectorValue,
                 readPending>>

\* The preference store fails the oldest request.
WriteFails ==
  /\ writes # <<>>
  /\ writes' = Tail(writes)
  /\ UNCHANGED <<lang, probe, domVars, page0, lastPass, hist, pc, selectorValue,
                 stored, readPending>>

AppNext ==
  \/ FilterCourses
  \/ RestoreCallback
  \/ \E curModuleCode \in UserChoices : Change(curModuleCode)
  \/ WriteCompletes
  \/ WriteFails

AppSpec == AppInit /\ [][AppNext]_vars

\* The same program with a preference store whose writes all complete.
ReliableNext ==
  \/ FilterCourses
  \/ RestoreCallback
  \/ \E curModuleCode \in UserChoices : Change(curModuleCode)
  \/ WriteCompletes

ReliableSpec == AppInit /\ [][ReliableNext]_vars

----------------------------------------------------------------------------
(* Specification of the two pure functions on their own: one call of       *)
(* parseCourseInfoString on a label put together from a season prefix, a   *)
(* run of segment letters and trailing content, or one call of             *)
(* parseModuleCode on a string.                                            *)

\* The season prefixes of the labels: one glyph, both glyphs, the English
\* words followed by a space, and an English word in lower case.
PrefixJaSpring == <<"U+6625">>
PrefixJaAutumn == <<"U+79CB">>
PrefixJaBoth == <<"U+6625", "U+79CB">>
PrefixEnSpring == <<"S","p","r","i","n","g"," ">>
PrefixEnAutumn == <<"A","u","t","u","m","n"," ">>
PrefixEnLowerSpring == <<"s","p","r","i","n","g"," ">>

SeasonPrefixes ==
  {PrefixJaSpring, PrefixJaAutumn, PrefixJaBoth,
   PrefixEnSpring, PrefixEnAutumn, PrefixEnLowerSpring}

RunLetters == {"a", "b", "c", "A", "B", "C"}

\* The runs of at most n segment letters, the empty run included.
RunsUpTo(n) == UNION {[1..k -> RunLetters] : k \in 0..n}

\* Nothing, " <wednesday glyph>5,6", " Mon. 2", and content that begins with
\* a segment letter.
Trailings ==
  {<<>>,
   <<" ", "U+6C34", "5", ",", "6">>,
   <<" ", "M", "o", "n", ".", " ", "2">>,
   <<"b", "i", "s">>}

\* The strings given to the codec: the seven option values and strings that
\* are none of them.
CodecInputs ==
  ModuleCodeSet \cup
    {<<>>,
     <<"s","p","r","i","n","g">>,
     <<"s","p","r","i","n","g","-","d">>,
     <<"w","i","n","t","e","r","-","a">>,
     <<"s","p","r","i","n","g","-","a","-","b">>}

ParseProbe(prefix, run, trailing) ==
  [fn |-> "parse", prefix |-> prefix, run |-> run, trailing |-> trailing,
   input |-> prefix \o run \o trailing, done |-> FALSE, output |-> <<>>]

DecodeProbe(code) ==
  [fn |-> "decode", prefix |-> <<>>, run |-> <<>>, trailing |-> <<>>,
   input |-> code, done |-> FALSE, output |-> <<>>]

UnitInit ==
  /\ lang \in Langs
  /\ listContainer = NoContainer
  /\ thumbContainer = NoContainer
  /\ page0 = [list |-> listContainer, thumb |-> thumbContainer]
  /\ lastPass = NoPass
  /\ hist = NoHist
  /\ pc = "unit"
  /\ selectorValue = All
  /\ stored = Absent
  /\ readPending = FALSE
  /\ writes = <<>>
  /\ \/ \E prefix \in SeasonPrefixes, run \in RunsUpTo(MaxRun),
           trailing \in Trailings :
          probe = ParseProbe(prefix, run, trailing)
     \/ \E code \in CodecInputs : probe = DecodeProbe(code)

\* Lines 165-210: parseCourseInfoString(probe.input) returns an object or
\* nothing, or throws "invalid lang".
ParseLabel ==
  /\ probe.fn = "parse"
  /\ ~probe.done
  /\ probe' = [probe EXCEPT
                 !.done = TRUE,
                 !.output = [error |-> IF lang \in SupportedLangs THEN "none"
                                       ELSE "invalid lang"]
                            @@ parseCourseInfoString(probe.input)]
  /\ UNCHANGED <<lang, domVars, page0, lastPass, hist, appVars>>

\* Lines 45-52: parseModuleCode(probe.input) returns its two fields for
\* every string; it has no throw statement and split throws on no string.
DecodeCode ==
  /\ probe.fn = "decode"
  /\ ~probe.done
  /\ probe' = [probe EXCEPT
                 !.done = TRUE,
                 !.output = [error |-> "none"] @@ parseModuleCode(probe.input)]
  /\ UNCHANGED <<lang, domVars, page0, lastPass, hist, appVars>>

UnitNext == ParseLabel \/ DecodeCode

UnitSpec == UnitInit /\ [][UnitNext]_vars

----------------------------------------------------------------------------
(* Vocabulary of the properties *)

ViewMode == ViewModeOf(listContainer, thumbContainer)
Courses == CoursesOf(listContainer, thumbContainer)
LabelOf(i) == CourseInfoStringOf(Courses[i], ViewMode)

\* The last pass returned normally.
Completed == lastPass.code # NoCode /\ lastPass.error = "none"

\* The selector table of the specification, written out.
SeasonOfCode(code) ==
  IF code \in {SpringA, SpringB, SpringC} THEN "spring" ELSE "autumn"
SegmentOfCode(code) ==
  IF code \in {SpringA, AutumnA} THEN "a"
  ELSE IF code \in {SpringB, AutumnB} THEN "b"
  ELSE "c"

\* The parsed facts courseInfo include the season and the segment of code.
Belongs(courseInfo, code) ==
  /\ IF SeasonOfCode(code) = "spring" THEN courseInfo.spring ELSE courseInfo.autumn
  /\ \E k \in DOMAIN courseInfo.module :
       courseInfo.module[k] = <<SegmentOfCode(code)>>

NoWhitespace(s) == \A i \in DOMAIN s : s[i] \notin WhiteSpace

\* Every course carries exactly one of the two row classes.
OneRowClassEach ==
  \A i \in DOMAIN Courses :
    Courses[i].classList = {"row0"} \/ Courses[i].classList = {"row1"}

\* The number of visible courses among the first i.
VisibleRank(i) == Cardinality({j \in 1..i : Visible(Courses[j])})

RowClassOfRank(k) == IF k % 2 = 1 THEN {"row1"} ELSE {"row0"}

\* Visibility and row classes of every element of both containers.
Presentation(lc, tc) ==
  [i \in DOMAIN (lc.children \o tc.children) |->
     [visible |-> Visible((lc.children \o tc.children)[i]),
      classList |-> (lc.children \o tc.children)[i].classList]]

\* Visibility of every course, and the row class of the visible ones.
Outcome(lc, tc) ==
  [i \in DOMAIN CoursesOf(lc, tc) |->
     [visible |-> Visible(CoursesOf(lc, tc)[i]),
      classList |-> IF Visible(CoursesOf(lc, tc)[i])
                    THEN CoursesOf(lc, tc)[i].classList
                    ELSE {}]]

OutcomeOfPass(lc, tc, moduleCode) ==
  Outcome(applyFilter(lc, tc, moduleCode).listContainer,
          applyFilter(lc, tc, moduleCode).thumbContainer)

----------------------------------------------------------------------------
(* Properties *)

\* C1: after a completed pass with a concrete selector, under a supported
\* language, every entry whose label passes the shape check and does not
\* match the language's pattern is visible.
C1_NoMatchIsShown ==
  (lastPass.code \in ConcreteCodes /\ Completed /\ lang \in SupportedLangs) =>
    \A i \in DOMAIN Courses :
      (ShapeCheck(LabelOf(i)) /\ ~parseCourseInfoString(LabelOf(i)).matched)
        => Visible(Courses[i])

\* C2: after a completed pass with a concrete selector, an entry whose label
\* passes the shape check and matches the pattern is visible if and only if
\* its parsed seasons include the selector's season and its parsed segments
\* include the selector's segment.
C2_MatchedShownIffSelected ==
  (lastPass.code \in ConcreteCodes /\ Completed /\ lang \in SupportedLangs) =>
    \A i \in DOMAIN Courses :
      (ShapeCheck(LabelOf(i)) /\ parseCourseInfoString(LabelOf(i)).matched)
        => (Visible(Courses[i])
              <=> Belongs(parseCourseInfoString(LabelOf(i)), lastPass.code))

C2_Witness ==
  /\ lastPass.code \in ConcreteCodes /\ Completed /\ lang \in SupportedLangs
  /\ \E i, j \in DOMAIN Courses :
       /\ ShapeCheck(LabelOf(i)) /\ parseCourseInfoString(LabelOf(i)).matched
       /\ ShapeCheck(LabelOf(j)) /\ parseCourseInfoString(LabelOf(j)).matched
       /\ Visible(Courses[i]) /\ ~Visible(Courses[j])

\* C3: in list layout, after a completed pass with a concrete selector over
\* rows that carry exactly one row class each, the k-th visible row in handle
\* order carries row1 when k is odd and row0 when k is even.
C3_VisibleRowsAlternate ==
  (ViewMode = "list" /\ lastPass.code \in ConcreteCodes /\ Completed
     /\ OneRowClassEach) =>
    \A i \in DOMAIN Courses :
      Visible(Courses[i]) => Courses[i].classList = RowClassOfRank(VisibleRank(i))

C3_Witness ==
  /\ ViewMode = "list" /\ lastPass.code \in ConcreteCodes /\ Completed
  /\ OneRowClassEach
  /\ \E i, j, k \in DOMAIN Courses :
       /\ i < j /\ j < k
       /\ Visible(Courses[i]) /\ ~Visible(Courses[j]) /\ Visible(Courses[k])
       /\ Courses[i].classList = {"row1"} /\ Courses[k].classList = {"row0"}

\* C4: after a completed pass with `all`, whatever passes came before, every
\* entry is visible and, in list layout over rows that carry exactly one row
\* class each, the i-th row carries row1 when i is odd and row0 when even.
C4_AllShowsAndStripesAll ==
  (lastPass.code = All /\ Completed) =>
    /\ \A i \in DOMAIN Courses : Visible(Courses[i])
    /\ (ViewMode = "list" /\ OneRowClassEach) =>
         \A i \in DOMAIN Courses : Courses[i].classList = RowClassOfRank(i)

C4_Witness ==
  /\ lastPass.code = All /\ Completed /\ hist.hiddenBefore
  /\ ViewMode = "list" /\ OneRowClassEach /\ Len(Courses) >= 3

\* C5: a pass that fails with the unsupported-language condition leaves the
\* visibility and the row class of every element as they were before it.
C5_FailedPassChangesNothing ==
  [][lastPass'.error = "invalid lang" =>
       Presentation(listContainer', thumbContainer')
         = Presentation(listContainer, thumbContainer)]_vars

\* C6: with neither container present, every pass, with `all` too, fails with
\* the unrecognized-layout condition, having processed no entry, and the
\* document is as the server rendered it.
C6_NoLayoutFailsUntouched ==
  (~listContainer.present /\ ~thumbContainer.present /\ lastPass.code # NoCode) =>
    /\ lastPass.error = "invalid viewMode"
    /\ lastPass.processed = 0
    /\ listContainer = page0.list /\ thumbContainer = page0.thumb

C6_Witness ==
  /\ ~listContainer.present /\ ~thumbContainer.present
  /\ lastPass.code = All /\ lastPass.error = "invalid viewMode"

\* C7: after a pass with any selector, every entry whose label holds no
\* whitespace (the empty label of a card without detail element included) is
\* visible.
C7_ShortLabelIsShown ==
  lastPass.code # NoCode =>
    \A i \in DOMAIN Courses : NoWhitespace(LabelOf(i)) => Visible(Courses[i])

C7_Witness ==
  /\ lastPass.code \in ConcreteCodes /\ Completed /\ lang \in SupportedLangs
  /\ \E i, j \in DOMAIN Courses :
       /\ LabelOf(i) = LabelOneToken
       /\ parseCourseInfoString(LabelOf(i)).matched
       /\ ~Belongs(parseCourseInfoString(LabelOf(i)), lastPass.code)
       /\ Visible(Courses[i])
       /\ ~Visible(Courses[j])

\* C8: a step that issues a preference write follows a pass for the written
\* selector that returned normally after processing every entry; a step that
\* completes or fails a write changes neither the document nor the record of
\* the last pass.
C8_PassBeforeWrite ==
  [][/\ Len(writes') > Len(writes) =>
          /\ lastPass'.code = writes'[Len(writes')]
          /\ lastPass'.code = selectorValue'
          /\ lastPass'.error = "none"
          /\ lastPass'.processed =
               Len(CoursesOf(listContainer', thumbContainer'))
     /\ Len(writes') < Len(writes) =>
          /\ listContainer' = listContainer
          /\ thumbContainer' = thumbContainer
          /\ lastPass' = lastPass]_vars

\* A write failed and the entries hidden by the pass before it stay hidden.
C8_Witness ==
  /\ writes = <<>> /\ ~readPending
  /\ lastPass.code \in ConcreteCodes /\ Completed
  /\ stored # lastPass.code
  /\ SomeHidden

\* C9: after a completed pass, the visibility of every entry and the row
\* class of every visible entry are those the same pass gives on the document
\* as the server rendered it: the passes before it have no influence.
C9_OutcomeOfLastSelectorAlone ==
  Completed =>
    Outcome(listContainer, thumbContainer)
      = OutcomeOfPass(page0.list, page0.thumb, lastPass.code)

\* The state before the pass did differ from the rendered one: a hidden row
\* carries a class that a pass on the rendered document would not leave.
C9_Witness ==
  /\ Completed /\ lastPass.code \in ConcreteCodes /\ ViewMode = "list"
  /\ SomeHidden
  /\ listContainer
       # applyFilter(page0.list, page0.thumb, lastPass.code).listContainer

\* C10: in a state left by a pass, a second pass with the same selector
\* leaves the visibility and the row class of every element as they are.
C10_PassIsIdempotent ==
  lastPass.code # NoCode =>
    Presentation(applyFilter(listContainer, thumbContainer, lastPass.code).listContainer,
                 applyFilter(listContainer, thumbContainer, lastPass.code).thumbContainer)
      = Presentation(listContainer, thumbContainer)

C10_Witness ==
  /\ lastPass.code \in ConcreteCodes /\ Completed /\ ViewMode = "list"
  /\ OneRowClassEach
  /\ \E i, j, k \in DOMAIN Courses :
       /\ ~Visible(Courses[i])
       /\ j < k /\ Visible(Courses[j]) /\ Visible(Courses[k])
       /\ Courses[j].classList # Courses[k].classList

----------------------------------------------------------------------------
(* Properties of the parser and of the codec on their own *)

\* The segment a letter of a run names.
SegmentOf(c) ==
  IF c \in {"a", "A"} THEN "a" ELSE IF c \in {"b", "B"} THEN "b" ELSE "c"

SegmentsOfRun(run) == [k \in DOMAIN run |-> <<SegmentOf(run[k])>>]

\* The probe is a finished parse of prefix, a run of at least one letter and
\* trailing content that does not continue the run.
ParsedRun ==
  /\ probe.fn = "parse" /\ probe.done
  /\ probe.run # <<>>
  /\ probe.trailing = <<>> \/ probe.trailing[1] \notin RunLetters

\* The encoding of the specification: season, one "-", lower-case segment.
Encode(pair) == pair.season \o <<"-">> \o LowerStr(pair.module)

\* C11: under "ja", a label that starts with both season glyphs followed by a
\* run of segment letters parses as a match with spring and autumn both true
\* and the segments of the run.
C11_FullYearParsesBothSeasons ==
  (ParsedRun /\ lang = "ja" /\ probe.prefix = PrefixJaBoth) =>
    /\ probe.output.matched
    /\ probe.output.spring /\ probe.output.autumn
    /\ probe.output.module = SegmentsOfRun(probe.run)

C14_DecodeRejectsNonCodes ==
  (probe.fn = "decode" /\ probe.done /\ probe.input \notin ConcreteCodes) =>
    probe.output.error # "none"

\* C15: decoding one of the six concrete codes and encoding the pair again
\* gives the code.
C15_DecodeEncodeRoundTrip ==
  (probe.fn = "decode" /\ probe.done /\ probe.input \in ConcreteCodes) =>
    /\ probe.output.error = "none"
    /\ Encode(probe.output) = probe.input

C15_Witness ==
  /\ probe.fn = "decode" /\ probe.done /\ probe.input = AutumnB
  /\ probe.output.season = <<"a","u","t","u","m","n">>
  /\ probe.output.module = <<"b">>

----------------------------------------------------------------------------
(* Properties of the restore callback and of the change listener *)

\* The positions of the courses of a document that are visible.
VisibleSet(lc, tc) ==
  {i \in DOMAIN CoursesOf(lc, tc) : Visible(CoursesOf(lc, tc)[i])}

\* The step is the getStorage callback.
CallbackStep == readPending /\ ~readPending'

\* The step is a change event.
ChangeStep == pc = "ready" /\ selectorValue' # selectorValue /\ ~CallbackStep

\* C13: when the read of the preference returns absent, the callback applies
\* no filter: the selector, every entry and the record of the last pass are
\* as before, and when nothing was selected before, the selector is on `all`
\* and the visible entries are all of them, those a pass with `all` leaves.
C13_AbsentReadAppliesNoFilter ==
  [][(CallbackStep /\ stored = Absent) =>
       /\ selectorValue' = selectorValue
       /\ listContainer' = listContainer
       /\ thumbContainer' = thumbContainer
       /\ lastPass' = lastPass
       /\ lastPass = NoPass =>
            /\ selectorValue' = All
            /\ VisibleSet(listContainer', thumbContainer')
                 = DOMAIN CoursesOf(listContainer', thumbContainer')
            /\ \A r \in {applyFilter(listContainer', thumbContainer', All)} :
                 r.error = "none" =>
                   VisibleSet(r.listContainer, r.thumbContainer)
                     = VisibleSet(listContainer', thumbContainer')]_vars

\* The callback has run on an absent preference, on a page with entries.
C13_Witness ==
  /\ pc = "ready" /\ ~readPending
  /\ stored = Absent /\ writes = <<>>
  /\ lastPass = NoPass /\ selectorValue = All
  /\ Len(Courses) >= 1

\* C16: whatever the order of the restore callback and the change events,
\* once the callback has run and every write has completed, the selector,
\* the code of the last pass and the persisted preference are one code.
C16_SettledStateAgrees ==
  (pc = "ready" /\ ~readPending /\ writes = <<>> /\ Completed) =>
    /\ selectorValue = lastPass.code
    /\ stored = lastPass.code

\* C17: a change event whose pass fails with a configuration error issues no
\* write, and the persisted code stays what it was.
C17_FailedChangeWritesNothing ==
  [][(ChangeStep /\ lastPass'.error # "none") =>
       /\ writes' = writes
       /\ stored' = stored]_vars

\* A change event has failed on a page without a layout, and the persisted
\* code is not the one selected.
C17_Witness ==
  /\ pc = "ready"
  /\ lastPass.error = "invalid viewMode"
  /\ selectorValue = lastPass.code
  /\ writes = <<>>
  /\ stored # selectorValue

----------------------------------------------------------------------------
(* Properties of the traversal and of the row classes *)

Last(seq) == seq[Len(seq)]

\* C18: no pass changes the header row of the list or the footer node of the
\* thumbnails; a pass that returns has processed every other child of the
\* container once, in the manner of its layout; with both containers present
\* the list is the layout and the thumbnails are left as they were.
C18_HeaderFooterUntouchedEachProcessed ==
  /\ listContainer.present =>
       /\ Len(listContainer.children) = Len(page0.list.children)
       /\ Head(listContainer.children) = Head(page0.list.children)
       /\ thumbContainer = page0.thumb
       /\ Completed =>
            /\ lastPass.processed = Len(listContainer.children) - 1
            /\ \A i \in DOMAIN Courses :
                 Courses[i].display \in {"table-row", "none"}
  /\ (~listContainer.present /\ thumbContainer.present) =>
       /\ Len(thumbContainer.children) = Len(page0.thumb.children)
       /\ Last(thumbContainer.children) = Last(page0.thumb.children)
       /\ Completed =>
            /\ lastPass.processed = Len(thumbContainer.children) - 1
            /\ \A i \in DOMAIN Courses :
                 Courses[i].display \in {"block", "none"}

\* A pass with a concrete selector has returned on a page with both
\* containers, two rows, one of them hidden, and a card.
C18_Witness ==
  /\ listContainer.present /\ thumbContainer.present
  /\ Completed /\ lastPass.code \in ConcreteCodes
  /\ lastPass.processed = 2
  /\ Len(thumbContainer.children) >= 2
  /\ \E i, j \in DOMAIN Courses : Visible(Courses[i]) /\ ~Visible(Courses[j])

\* C19: in list layout a pass keeps every row with exactly one row class when
\* every row had exactly one, and a row hidden after the pass has the class
\* it had before it; in thumbnail layout a pass changes no class.
C19_RowClassesKept ==
  [][/\ listContainer.present =>
          /\ OneRowClassEach =>
               \A i \in DOMAIN CoursesOf(listContainer', thumbContainer') :
                 CoursesOf(listContainer', thumbContainer')[i].classList
                   \in {{"row0"}, {"row1"}}
          /\ \A i \in DOMAIN CoursesOf(listContainer', thumbContainer') :
               ~Visible(CoursesOf(listContainer', thumbContainer')[i]) =>
                 CoursesOf(listContainer', thumbContainer')[i].classList
                   = Courses[i].classList
     /\ (~listContainer.present /\ thumbContainer.present) =>
          \A i \in DOMAIN thumbContainer'.children :
            thumbContainer'.children[i].classList
              = thumbContainer.children[i].classList]_vars

\* A pass with a concrete selector has returned on a striped list, leaving a
\* hidden row and a visible row whose class it changed.
C19_Witness ==
  /\ ViewMode = "list" /\ OneRowClassEach
  /\ Completed /\ lastPass.code \in ConcreteCodes
  /\ \E i, j \in DOMAIN Courses :
       /\ ~Visible(Courses[i])
       /\ Visible(Courses[j])
       /\ Courses[j].classList # page0.list.children[j + 1].classList

====
